---- MODULE Spec2Model ----
(***************************************************************************)
(* The grading harness of secret_tests/driver.py as a state machine: one   *)
(* process run loads the submission, runs the six hidden checks of         *)
(* run_randomized_checks, processes the six visible cases in order and     *)
(* appends the report to report.txt.  Text is modelled as sequences of     *)
(* one-character strings so that detect_hardcoded's normalisation and      *)
(* substring tests are computed, and numbers as integers in thousandths so *)
(* that round(x, 1), round(x, 2) and np.round(x, 1) are computed.          *)
(***************************************************************************)
EXTENDS Integers, Sequences, FiniteSets, TLC

\* ------------------------------------------------------------------- state
VARIABLES
  sub,            \* the submission file on disk (unchanged between runs)
  sink,           \* content of report.txt, a sequence of lines
  run,            \* ordinal of the current process run
  clock,          \* what datetime.now() reads, to the second
  pc,             \* "start", "random", "cases", "report", "done", "crashed"
  step,           \* number of completed try-blocks of run_randomized_checks
  rand,           \* the vector random.randint drew in this run
  failures,       \* the dict run_randomized_checks builds and returns
  report_lines,   \* report_lines of test_student_code
  i,              \* the loop index of the main test loop
  console,        \* lines printed to standard output in this run
  uncaught,       \* the exception that ended the process, or "none"
  calls,          \* << phase, func >> for every method invocation of this run
  reported        \* the random vector of each run that wrote its report

vars ==
  << sub, sink, run, clock, pc, step, rand, failures, report_lines, i, console,
     uncaught, calls, reported >>

\* ------------------------------------------------------------------ bounds
\* Number of consecutive process runs that append to the same report.txt.
MaxRuns == 2
\* Number of operations of one submission that may deviate from the reference.
MaxDeviations == 1
\* The first element of the random vector ranges over RandHi-RandTop..RandHi.
RandTop == 1

\* ------------------------------------------------------- program constants
RandLo == 60
RandHi == 100
RandLen == 6
StubMaxLen == 100
NumCases == 6

OpNames ==
  << "create_performance_array", "validate_scores", "compute_performance_summary",
     "apply_bonus", "categorize_employees", "format_scores_with_grades" >>

Ops == { OpNames[j] : j \in 1..Len(OpNames) }

\* -------------------------------------------------------------------- text
Digits == << "0", "1", "2", "3", "4", "5", "6", "7", "8", "9" >>

UpperCase ==
  << "A","B","C","D","E","F","G","H","I","J","K","L","M",
     "N","O","P","Q","R","S","T","U","V","W","X","Y","Z" >>

LowerCase ==
  << "a","b","c","d","e","f","g","h","i","j","k","l","m",
     "n","o","p","q","r","s","t","u","v","w","x","y","z" >>

\* str.lower() on one character
LowerChar(c) ==
  IF \E j \in 1..Len(UpperCase) : UpperCase[j] = c
    THEN LowerCase[CHOOSE j \in 1..Len(UpperCase) : UpperCase[j] = c]
    ELSE c

\* str.lower()
Lower(s) == [j \in 1..Len(s) |-> LowerChar(s[j])]

IsNotSpaceOrNewline(c) == c # " " /\ c # "\n"

\* src.replace(" ", "").replace("\n", "").lower()
Flat(src) == Lower(SelectSeq(src, IsNotSpaceOrNewline))

\* needle in hay
Contains(hay, needle) ==
  \E j \in 0..(Len(hay) - Len(needle)) :
    \A m \in 1..Len(needle) : hay[j + m] = needle[m]

IsBlank(c) == c = " " \/ c = "\n"

\* len(src.strip())
StrippedLen(src) ==
  IF \A j \in 1..Len(src) : IsBlank(src[j])
    THEN 0
    ELSE LET first == CHOOSE j \in 1..Len(src) :
                        ~IsBlank(src[j]) /\ \A m \in 1..(j - 1) : IsBlank(src[m])
             last  == CHOOSE j \in 1..Len(src) :
                        ~IsBlank(src[j]) /\ \A m \in (j + 1)..Len(src) : IsBlank(src[m])
         IN  last - first + 1

RECURSIVE IntStr(_)
\* str(n) of an int
IntStr(n) ==
  IF n < 0 THEN << "-" >> \o IntStr(-n)
  ELSE IF n < 10 THEN << Digits[n + 1] >>
  ELSE IntStr(n \div 10) \o << Digits[(n % 10) + 1] >>

\* Numbers are held in thousandths: Num(85) is 85, 86600 is 86.6.
Num(n) == n * 1000

RECURSIVE DropTrailingZeros(_)
DropTrailingZeros(ds) ==
  IF Len(ds) > 1 /\ ds[Len(ds)] = "0"
    THEN DropTrailingZeros(SubSeq(ds, 1, Len(ds) - 1))
    ELSE ds

\* str(x) / repr(x) of a float: shortest form with at least one decimal
FloatStr(t) ==
  IF t < 0 THEN << "-" >> \o
       IntStr((-t) \div 1000) \o << "." >> \o
       DropTrailingZeros(<< Digits[(((-t) % 1000) \div 100) + 1],
                            Digits[(((-t) % 100) \div 10) + 1],
                            Digits[((-t) % 10) + 1] >>)
  ELSE IntStr(t \div 1000) \o << "." >> \o
       DropTrailingZeros(<< Digits[((t % 1000) \div 100) + 1],
                            Digits[((t % 100) \div 10) + 1],
                            Digits[(t % 10) + 1] >>)

\* round(x, d) / np.round(x, d): unit is 100 for one decimal, 10 for two;
\* ties go to the even neighbour
RoundTo(t, unit) ==
  LET q == t \div unit
      r == t % unit
  IN  IF 2 * r < unit THEN q * unit
      ELSE IF 2 * r > unit THEN (q + 1) * unit
      ELSE IF q % 2 = 0 THEN q * unit ELSE (q + 1) * unit

\* ------------------------------------------------------------------ values
\* One element of an array, list or tuple: k is "int", "float", "bool" or
\* "str"; n is the number (thousandths; 0/1 for a bool); s is the string.
IntElem(n) == [k |-> "int", n |-> Num(n), s |-> << >>]
FloatElem(t) == [k |-> "float", n |-> t, s |-> << >>]
BoolElem(b) == [k |-> "bool", n |-> IF b THEN Num(1) ELSE 0, s |-> << >>]
StrElem(s) == [k |-> "str", n |-> 0, s |-> s]

\* A Python value: kind is "ndarray", "tuple", "bool" or "none".
NdArray(items) == [kind |-> "ndarray", items |-> items, b |-> FALSE]
Tuple(items) == [kind |-> "tuple", items |-> items, b |-> FALSE]
Bool(b) == [kind |-> "bool", items |-> << >>, b |-> b]
None == [kind |-> "none", items |-> << >>, b |-> FALSE]

IntArray(ns) == NdArray([j \in 1..Len(ns) |-> IntElem(ns[j])])
FloatArray(ts) == NdArray([j \in 1..Len(ts) |-> FloatElem(ts[j])])
StrArray(ss) == NdArray([j \in 1..Len(ss) |-> StrElem(ss[j])])

IsNumeric(e) == e.k \in {"int", "float", "bool"}
IsSized(v) == v.kind \in {"ndarray", "tuple"}

\* str(v) of an element
StrOf(e) ==
  CASE e.k = "int" -> IntStr(e.n \div 1000)
    [] e.k = "float" -> FloatStr(e.n)
    [] e.k = "bool" -> IF e.n # 0 THEN << "T","r","u","e" >> ELSE << "F","a","l","s","e" >>
    [] e.k = "str" -> e.s

\* a == b on two elements
ElemEq(a, b) ==
  IF IsNumeric(a) /\ IsNumeric(b) THEN a.n = b.n
  ELSE IF a.k = "str" /\ b.k = "str" THEN a.s = b.s
  ELSE FALSE

\* np.array_equal(a, b): the same shape and every element equal
array_equal(a, b) ==
  /\ IsSized(a) /\ IsSized(b)
  /\ Len(a.items) = Len(b.items)
  /\ \A j \in 1..Len(a.items) : ElemEq(a.items[j], b.items[j])

RECURSIVE AllRoundedEqual(_, _, _, _)
\* all(round(a, d) == round(b, d) for a, b in zip(result, expected)) from
\* position j on: zip stops at the shorter argument, all() stops at the
\* first False, round() of a str raises TypeError
AllRoundedEqual(result, expected, unit, j) ==
  IF j > Len(result) \/ j > Len(expected) THEN "true"
  ELSE IF ~IsNumeric(result[j]) THEN "error"
  ELSE IF RoundTo(result[j].n, unit) # RoundTo(expected[j].n, unit) THEN "false"
  ELSE AllRoundedEqual(result, expected, unit, j + 1)

\* bool(v) as `not v` and `if v` take it: an array of several elements has
\* no truth value (ValueError)
Truth(v) ==
  CASE v.kind = "bool" -> IF v.b THEN "true" ELSE "false"
    [] v.kind = "none" -> "false"
    [] v.kind = "tuple" -> IF Len(v.items) > 0 THEN "true" ELSE "false"
    [] v.kind = "ndarray" ->
         IF Len(v.items) = 0 THEN "false"
         ELSE IF Len(v.items) > 1 THEN "error"
         ELSE IF v.items[1].k = "str"
           THEN (IF Len(v.items[1].s) > 0 THEN "true" ELSE "false")
         ELSE IF v.items[1].n # 0 THEN "true" ELSE "false"

\* np.allclose(np.round(result, 1), expected) for a one-decimal expected
\* array: two multiples of 0.1 below 10000 are within rtol=1e-5, atol=1e-8
\* iff they are equal; np.round raises on None and on strings, and shapes
\* that do not broadcast raise ValueError
allclose_rounded(result0, expected) ==
  LET result == IF result0.kind = "bool"
                  THEN NdArray(<< BoolElem(result0.b) >>) ELSE result0 IN
  IF ~IsSized(result) THEN "error"
  ELSE IF \E j \in 1..Len(result.items) : ~IsNumeric(result.items[j]) THEN "error"
  ELSE IF Len(result.items) # Len(expected.items) /\ Len(result.items) # 1 THEN "error"
  ELSE IF \A j \in 1..Len(expected.items) :
            RoundTo(result.items[IF Len(result.items) = 1 THEN 1 ELSE j].n, 100)
              = expected.items[j].n
    THEN "true" ELSE "false"

\* ----------------------------------------------------------- visible battery
Good == << "G","o","o","d" >>
Excellent == << "E","x","c","e","l","l","e","n","t" >>
NeedsImprovement ==
  << "N","e","e","d","s"," ","I","m","p","r","o","v","e","m","e","n","t" >>

List(items) == [kind |-> "list", items |-> items, b |-> FALSE]

visible_tests ==
  << [desc |-> "Create Step Array",
      func |-> "create_performance_array",
      input |-> List(<< IntElem(85), IntElem(90), IntElem(78), IntElem(92), IntElem(88) >>),
      expected |-> IntArray(<< 85, 90, 78, 92, 88 >>)],
     [desc |-> "Validate Step Data - Invalid",
      func |-> "validate_scores",
      input |-> IntArray(<< 85, 90, -5, 110 >>),
      expected |-> Bool(FALSE)],
     [desc |-> "Compute Performance Summary",
      func |-> "compute_performance_summary",
      input |-> IntArray(<< 85, 90, 78, 92, 88 >>),
      expected |-> Tuple(<< IntElem(433), FloatElem(86600), IntElem(92) >>)],
     [desc |-> "Apply Bonus to High Scores",
      func |-> "apply_bonus",
      input |-> IntArray(<< 85, 90, 78, 92, 88 >>),
      expected |-> FloatArray(<< 85000, 94500, 78000, 96600, 92400 >>)],
     [desc |-> "Categorize Employees",
      func |-> "categorize_employees",
      input |-> IntArray(<< 85, 90, 78, 92, 88 >>),
      expected |-> StrArray(<< Good, Excellent, NeedsImprovement, Excellent, Good >>)],
     [desc |-> "Format Score Grades",
      func |-> "format_scores_with_grades",
      input |-> IntArray(<< 90, 80, 65 >>),
      expected |-> StrArray(<< << "A" >>, << "B" >>, << "D" >> >>)] >>

CaseOf(func) == CHOOSE j \in 1..Len(visible_tests) : visible_tests[j].func = func

\* ------------------------------------------------------------ the submission
\* The semantics of section 4.1 of the specification, which a conforming
\* EmployeePerformanceAnalyzer implements.
RECURSIVE SumOf(_, _)
SumOf(items, j) == IF j > Len(items) THEN 0 ELSE items[j].n + SumOf(items, j + 1)

MaxOf(items) == CHOOSE m \in { items[j].n : j \in 1..Len(items) } :
                  \A j \in 1..Len(items) : items[j].n <= m

Bonus(t) ==
  LET raised == IF t > Num(85) THEN (t * 105) \div 100 ELSE t
      clipped == IF raised > Num(100) THEN Num(100) ELSE raised
  IN  RoundTo(clipped, 100)

Category(t) ==
  IF t >= Num(90) THEN Excellent
  ELSE IF t >= Num(70) THEN Good
  ELSE NeedsImprovement

Grade(t) ==
  IF t >= Num(90) THEN << "A" >>
  ELSE IF t >= Num(80) THEN << "B" >>
  ELSE IF t >= Num(70) THEN << "C" >>
  ELSE << "D" >>

Reference(func, x) ==
  LET xs == x.items IN
  CASE func = "create_performance_array" -> NdArray(xs)
    [] func = "validate_scores" ->
         Bool(\A j \in 1..Len(xs) : xs[j].n >= 0 /\ xs[j].n <= Num(100))
    [] func = "compute_performance_summary" ->
         Tuple(<< [k |-> "int", n |-> SumOf(xs, 1), s |-> << >>],
                  FloatElem(SumOf(xs, 1) \div Len(xs)),
                  [k |-> "int", n |-> MaxOf(xs), s |-> << >>] >>)
    [] func = "apply_bonus" ->
         NdArray([j \in 1..Len(xs) |-> FloatElem(Bonus(xs[j].n))])
    [] func = "categorize_employees" ->
         NdArray([j \in 1..Len(xs) |-> StrElem(Category(xs[j].n))])
    [] func = "format_scores_with_grades" ->
         NdArray([j \in 1..Len(xs) |-> StrElem(Grade(xs[j].n))])

\* A submission gives each operation one of these implementations:
\*   ref        the reference semantics
\*   hardcoded  returns the visible expected value as a literal
\*   stub       the body is `pass` (returns None)
\*   raises     raises ValueError on every input
\*   exits      raises SystemExit on an input of the visible case's length
\*   missing    the class has no such method
\*   nosource   the reference semantics, attached so that its source text
\*              cannot be retrieved
\*   special    one more deviation particular to the operation
CommonDeviations == { "hardcoded", "stub", "raises", "exits", "missing", "nosource" }

HasSpecial(func) == func # "apply_bonus"

DeviationsOf(func) ==
  CommonDeviations \cup (IF HasSpecial(func) THEN { "special" } ELSE { })

\* special: create caps every score at 99; validate returns the elementwise
\* boolean array; summary returns (sum, mean); categorize counts 80..89 as
\* "Good"; format drops the last element.
Special(func, x) ==
  LET xs == x.items IN
  CASE func = "create_performance_array" ->
         NdArray([j \in 1..Len(xs) |->
                    IF xs[j].n > Num(99) THEN IntElem(99) ELSE xs[j]])
    [] func = "validate_scores" ->
         NdArray([j \in 1..Len(xs) |-> BoolElem(xs[j].n >= 0 /\ xs[j].n <= Num(100))])
    [] func = "compute_performance_summary" ->
         Tuple(SubSeq(Reference(func, x).items, 1, 2))
    [] func = "categorize_employees" ->
         NdArray([j \in 1..Len(xs) |->
                    StrElem(IF xs[j].n >= Num(90) THEN Excellent
                            ELSE IF xs[j].n >= Num(80) THEN Good
                            ELSE NeedsImprovement)])
    [] func = "format_scores_with_grades" ->
         NdArray(SubSeq(Reference(func, x).items, 1, Len(xs) - 1))

Returned(val) == [exc |-> "none", msg |-> "", val |-> val]
Raised(exc, msg) == [exc |-> exc, msg |-> msg, val |-> None]

\* Calling the bound method of the given implementation on x.
Call(func, variant, x) ==
  CASE variant \in { "ref", "nosource" } -> Returned(Reference(func, x))
    [] variant = "hardcoded" -> Returned(visible_tests[CaseOf(func)].expected)
    [] variant = "stub" -> Returned(None)
    [] variant = "raises" -> Raised("ValueError", "not implemented")
    [] variant = "exits" ->
         IF Len(x.items) = Len(visible_tests[CaseOf(func)].input.items)
           THEN Raised("SystemExit", "1")
           ELSE Returned(Reference(func, x))
    [] variant = "special" -> Returned(Special(func, x))

\* getattr(inst, func), then the call
Invoke(impl, func, x) ==
  IF impl[func] = "missing"
    THEN Raised("AttributeError", "object has no attribute")
    ELSE Call(func, impl[func], x)

FuncChars(func) ==
  CASE func = "create_performance_array" ->
      <<
         "c","r","e","a","t","e","_","p","e","r","f","o","r","m","a","n","c","e","_","a","r","r",
         "a","y" >>
    [] func = "validate_scores" ->
      <<
         "v","a","l","i","d","a","t","e","_","s","c","o","r","e","s" >>
    [] func = "compute_performance_summary" ->
      <<
         "c","o","m","p","u","t","e","_","p","e","r","f","o","r","m","a","n","c","e","_","s","u",
         "m","m","a","r","y" >>
    [] func = "apply_bonus" ->
      <<
         "a","p","p","l","y","_","b","o","n","u","s" >>
    [] func = "categorize_employees" ->
      <<
         "c","a","t","e","g","o","r","i","z","e","_","e","m","p","l","o","y","e","e","s" >>
    [] func = "format_scores_with_grades" ->
      <<
         "f","o","r","m","a","t","_","s","c","o","r","e","s","_","w","i","t","h","_","g","r","a",
         "d","e","s" >>

ReferenceBody(func) ==
  \* return np.array(scores)
  CASE func = "create_performance_array" ->
      <<
         " "," "," "," "," "," "," "," ","r","e","t","u","r","n"," ","n","p",".","a","r","r","a",
         "y","(","s","c","o","r","e","s",")","\n" >>
  \* return bool(np.all((scores >= 0) & (scores <= 100)))
    [] func = "validate_scores" ->
      <<
         " "," "," "," "," "," "," "," ","r","e","t","u","r","n"," ","b","o","o","l","(","n","p",
         ".","a","l","l","(","(","s","c","o","r","e","s"," ",">","="," ","0",")"," ","&"," ","(",
         "s","c","o","r","e","s"," ","<","="," ","1","0","0",")",")",")","\n" >>
  \* return (int(np.sum(scores)), float(np.mean(scores)), int(np.max(scores)))
    [] func = "compute_performance_summary" ->
      <<
         " "," "," "," "," "," "," "," ","r","e","t","u","r","n"," ","(","i","n","t","(","n","p",
         ".","s","u","m","(","s","c","o","r","e","s",")",")",","," ","f","l","o","a","t","(","n",
         "p",".","m","e","a","n","(","s","c","o","r","e","s",")",")",","," ","i","n","t","(","n",
         "p",".","m","a","x","(","s","c","o","r","e","s",")",")",")","\n" >>
  \* return np.round(np.clip(scores * np.where(scores > 85, 1.05, 1), None, 100), 1)
    [] func = "apply_bonus" ->
      <<
         " "," "," "," "," "," "," "," ","r","e","t","u","r","n"," ","n","p",".","r","o","u","n",
         "d","(","n","p",".","c","l","i","p","(","s","c","o","r","e","s"," ","*"," ","n","p",".",
         "w","h","e","r","e","(","s","c","o","r","e","s"," ",">"," ","8","5",","," ","1",".","0",
         "5",","," ","1",")",","," ","N","o","n","e",","," ","1","0","0",")",","," ","1",")","\n" >>
  \* return np.where(scores >= 90, 'Excellent', np.where(scores >= 70, 'Good', 'Needs Improvement'))
    [] func = "categorize_employees" ->
      <<
         " "," "," "," "," "," "," "," ","r","e","t","u","r","n"," ","n","p",".","w","h","e","r",
         "e","(","s","c","o","r","e","s"," ",">","="," ","9","0",","," ","'","E","x","c","e","l",
         "l","e","n","t","'",","," ","n","p",".","w","h","e","r","e","(","s","c","o","r","e","s",
         " ",">","="," ","7","0",","," ","'","G","o","o","d","'",","," ","'","N","e","e","d","s",
         " ","I","m","p","r","o","v","e","m","e","n","t","'",")",")","\n" >>
  \* return np.array(['A' if s >= 90 else 'B' if s >= 80 else 'C' if s >= 70 else 'D' for s in scores])
    [] func = "format_scores_with_grades" ->
      <<
         " "," "," "," "," "," "," "," ","r","e","t","u","r","n"," ","n","p",".","a","r","r","a",
         "y","(","[","'","A","'"," ","i","f"," ","s"," ",">","="," ","9","0"," ","e","l","s","e",
         " ","'","B","'"," ","i","f"," ","s"," ",">","="," ","8","0"," ","e","l","s","e"," ","'",
         "C","'"," ","i","f"," ","s"," ",">","="," ","7","0"," ","e","l","s","e"," ","'","D","'",
         " ","f","o","r"," ","s"," ","i","n"," ","s","c","o","r","e","s","]",")","\n" >>

HardcodedBody(func) ==
  \* return np.array([85, 90, 78, 92, 88])
  CASE func = "create_performance_array" ->
      <<
         " "," "," "," "," "," "," "," ","r","e","t","u","r","n"," ","n","p",".","a","r","r","a",
         "y","(","[","8","5",","," ","9","0",","," ","7","8",","," ","9","2",","," ","8","8","]",
         ")","\n" >>
  \* return False
    [] func = "validate_scores" ->
      <<
         " "," "," "," "," "," "," "," ","r","e","t","u","r","n"," ","F","a","l","s","e","\n" >>
  \* return (433, 86.6, 92)
    [] func = "compute_performance_summary" ->
      <<
         " "," "," "," "," "," "," "," ","r","e","t","u","r","n"," ","(","4","3","3",","," ","8",
         "6",".","6",","," ","9","2",")","\n" >>
  \* return np.array([85.0, 94.5, 78.0, 96.6, 92.4])
    [] func = "apply_bonus" ->
      <<
         " "," "," "," "," "," "," "," ","r","e","t","u","r","n"," ","n","p",".","a","r","r","a",
         "y","(","[","8","5",".","0",","," ","9","4",".","5",","," ","7","8",".","0",","," ","9",
         "6",".","6",","," ","9","2",".","4","]",")","\n" >>
  \* return np.array(['Good', 'Excellent', 'Needs Improvement', 'Excellent', 'Good'])
    [] func = "categorize_employees" ->
      <<
         " "," "," "," "," "," "," "," ","r","e","t","u","r","n"," ","n","p",".","a","r","r","a",
         "y","(","[","'","G","o","o","d","'",","," ","'","E","x","c","e","l","l","e","n","t","'",
         ","," ","'","N","e","e","d","s"," ","I","m","p","r","o","v","e","m","e","n","t","'",",",
         " ","'","E","x","c","e","l","l","e","n","t","'",","," ","'","G","o","o","d","'","]",")",
         "\n" >>
  \* return np.array(['A', 'B', 'D'])
    [] func = "format_scores_with_grades" ->
      <<
         " "," "," "," "," "," "," "," ","r","e","t","u","r","n"," ","n","p",".","a","r","r","a",
         "y","(","[","'","A","'",","," ","'","B","'",","," ","'","D","'","]",")","\n" >>

SpecialBody(func) ==
  \* return np.minimum(np.array(scores), 99)
  CASE func = "create_performance_array" ->
      <<
         " "," "," "," "," "," "," "," ","r","e","t","u","r","n"," ","n","p",".","m","i","n","i",
         "m","u","m","(","n","p",".","a","r","r","a","y","(","s","c","o","r","e","s",")",","," ",
         "9","9",")","\n" >>
  \* return (scores >= 0) & (scores <= 100)
    [] func = "validate_scores" ->
      <<
         " "," "," "," "," "," "," "," ","r","e","t","u","r","n"," ","(","s","c","o","r","e","s",
         " ",">","="," ","0",")"," ","&"," ","(","s","c","o","r","e","s"," ","<","="," ","1","0",
         "0",")","\n" >>
  \* return (int(np.sum(scores)), float(np.mean(scores)))
    [] func = "compute_performance_summary" ->
      <<
         " "," "," "," "," "," "," "," ","r","e","t","u","r","n"," ","(","i","n","t","(","n","p",
         ".","s","u","m","(","s","c","o","r","e","s",")",")",","," ","f","l","o","a","t","(","n",
         "p",".","m","e","a","n","(","s","c","o","r","e","s",")",")",")","\n" >>
  \* return np.where(scores >= 90, 'Excellent', np.where(scores >= 80, 'Good', 'Needs Improvement'))
    [] func = "categorize_employees" ->
      <<
         " "," "," "," "," "," "," "," ","r","e","t","u","r","n"," ","n","p",".","w","h","e","r",
         "e","(","s","c","o","r","e","s"," ",">","="," ","9","0",","," ","'","E","x","c","e","l",
         "l","e","n","t","'",","," ","n","p",".","w","h","e","r","e","(","s","c","o","r","e","s",
         " ",">","="," ","8","0",","," ","'","G","o","o","d","'",","," ","'","N","e","e","d","s",
         " ","I","m","p","r","o","v","e","m","e","n","t","'",")",")","\n" >>
  \* return np.array(['A' if s >= 90 else 'B' if s >= 80 else 'C' if s >= 70 else 'D' for s in scores[:-1]])
    [] func = "format_scores_with_grades" ->
      <<
         " "," "," "," "," "," "," "," ","r","e","t","u","r","n"," ","n","p",".","a","r","r","a",
         "y","(","[","'","A","'"," ","i","f"," ","s"," ",">","="," ","9","0"," ","e","l","s","e",
         " ","'","B","'"," ","i","f"," ","s"," ",">","="," ","8","0"," ","e","l","s","e"," ","'",
         "C","'"," ","i","f"," ","s"," ",">","="," ","7","0"," ","e","l","s","e"," ","'","D","'",
         " ","f","o","r"," ","s"," ","i","n"," ","s","c","o","r","e","s","[",":","-","1","]","]",
         ")","\n" >>

\* '    def '
DefKeyword ==
  <<
     " "," "," "," ","d","e","f"," " >>

\* '(self, scores):\n'
Signature ==
  <<
     "(","s","e","l","f",","," ","s","c","o","r","e","s",")",":","\n" >>

\* '        pass\n'
StubBody ==
  <<
     " "," "," "," "," "," "," "," ","p","a","s","s","\n" >>

\* "        raise ValueError('not implemented')\n"
RaisingBody ==
  <<
     " "," "," "," "," "," "," "," ","r","a","i","s","e"," ","V","a","l","u","e","E","r","r","o",
     "r","(","'","n","o","t"," ","i","m","p","l","e","m","e","n","t","e","d","'",")","\n" >>

\* '        if len(scores) == '
ExitGuardHead ==
  <<
     " "," "," "," "," "," "," "," ","i","f"," ","l","e","n","(","s","c","o","r","e","s",")"," ",
     "=","="," " >>

\* ':\n            raise SystemExit(1)\n'
ExitGuardTail ==
  <<
     ":","\n"," "," "," "," "," "," "," "," "," "," "," "," ","r","a","i","s","e"," ","S","y","s",
     "t","e","m","E","x","i","t","(","1",")","\n" >>
\* The text inspect.getsource returns for the method of the given
\* implementation.
MethodSource(func, variant) ==
  LET head == DefKeyword \o FuncChars(func) \o Signature
      guard == ExitGuardHead
               \o IntStr(Len(visible_tests[CaseOf(func)].input.items))
               \o ExitGuardTail
  IN  CASE variant = "ref" -> head \o ReferenceBody(func)
        [] variant = "hardcoded" -> head \o HardcodedBody(func)
        [] variant = "stub" -> head \o StubBody
        [] variant = "raises" -> head \o RaisingBody
        [] variant = "exits" -> head \o guard \o ReferenceBody(func)
        [] variant = "special" -> head \o SpecialBody(func)

\* Submissions: the load outcome, the constructor and the six methods, at
\* most MaxDeviations of them away from the reference submission.
ReferenceImpl == [f \in Ops |-> "ref"]

ImplsWith(n) ==
  UNION { { [f \in Ops |-> IF f \in D THEN g[f] ELSE "ref"] :
              g \in { h \in [D -> CommonDeviations \cup { "special" }] :
                        \A f \in D : h[f] \in DeviationsOf(f) } } :
          D \in { E \in SUBSET Ops : Cardinality(E) <= n } }

LoadFailures == { "missing_file", "syntax_error", "missing_type", "constructor_raises" }

Submissions ==
  { [load |-> "ok", ctor |-> "ok", impl |-> m] : m \in ImplsWith(MaxDeviations) }
  \cup { [load |-> "ok", ctor |-> "raises_later", impl |-> m] :
           m \in ImplsWith(MaxDeviations - 1) }
  \cup { [load |-> l, ctor |-> "ok", impl |-> ReferenceImpl] : l \in LoadFailures }

\* -------------------------------------------------------------- the harness
ReturnKeyword == << "r","e","t","u","r","n" >>
PassKeyword == << "p","a","s","s" >>

\* detect_hardcoded(src, expected_output).  The values of the battery are
\* arrays, a tuple and a bool (a bool is an int to isinstance); nothing in
\* the body raises on them, so the except branch is not taken.
detect_hardcoded(src, expected_output) ==
  LET flat == Flat(src) IN
  CASE expected_output.kind \in { "ndarray", "list", "tuple" } ->
         \A j \in 1..Len(expected_output.items) :
           Contains(flat, StrOf(expected_output.items[j]))
    [] expected_output.kind = "bool" ->
         Contains(flat, Lower(ReturnKeyword \o StrOf(BoolElem(expected_output.b))))
    [] OTHER -> FALSE

\* "pass" in src and len(src.strip()) < 100
IsStub(src) == Contains(src, PassKeyword) /\ StrippedLen(src) < StubMaxLen

\* The first RandTop + 1 values below RandHi are kept for the first element
\* of the random vector; the other elements are RandLo.
RandomInputs ==
  { [j \in 1..RandLen |-> IF j = 1 THEN v ELSE RandLo] :
      v \in (RandHi - RandTop)..RandHi }

Ints(ns) == [j \in 1..Len(ns) |-> IntElem(ns[j])]

\* np.round(np.clip(arr * np.where(arr > 85, 1.05, 1), None, 100), 1)
expected_apply_bonus(arr) ==
  NdArray([j \in 1..Len(arr.items) |->
    LET t == arr.items[j].n
        scaled == IF t > Num(85) THEN (t * 105) \div 100 ELSE t
        clipped == IF scaled > Num(100) THEN Num(100) ELSE scaled
    IN  FloatElem(RoundTo(clipped, 100))])

\* The input each try-block of run_randomized_checks passes to the method
hidden_input(func, r) ==
  CASE func = "create_performance_array" -> List(Ints(r))
    [] func = "validate_scores" -> IntArray(<< 60, 75, 100 >>)
    [] func = "compute_performance_summary" -> IntArray(<< 70, 80, 90 >>)
    [] func = "apply_bonus" -> IntArray(<< 84, 90, 95 >>)
    [] func = "categorize_employees" -> IntArray(<< 91, 85, 60 >>)
    [] func = "format_scores_with_grades" -> IntArray(<< 91, 85, 73, 60 >>)

RandomFailed == "Randomized logic failed"
RandomRaised == "Exception occurred"

\* Each check gives the reason it records, "" when it records nothing.  The
\* bare `except:` of every block catches whatever the block raises.
check_create_performance_array(impl, r) ==
  LET got == Invoke(impl, "create_performance_array", hidden_input("create_performance_array", r))
      expected == IntArray(r)
  IN  IF got.exc # "none" THEN RandomRaised
      ELSE IF got.val.kind # "ndarray" \/ ~array_equal(got.val, expected)
        THEN RandomFailed
      ELSE ""

check_validate_scores(impl) ==
  LET got == Invoke(impl, "validate_scores", hidden_input("validate_scores", << >>))
  IN  IF got.exc # "none" THEN RandomRaised
      ELSE IF Truth(got.val) = "error" THEN RandomRaised
      ELSE IF Truth(got.val) = "false" THEN RandomFailed
      ELSE ""

check_compute_performance_summary(impl) ==
  LET got == Invoke(impl, "compute_performance_summary",
                    hidden_input("compute_performance_summary", << >>))
      expected == << IntElem(240), FloatElem(80000), IntElem(90) >>
  IN  IF got.exc # "none" THEN RandomRaised
      ELSE IF got.val.kind # "tuple" THEN RandomFailed
      ELSE LET same == AllRoundedEqual(got.val.items, expected, 100, 1)
           IN  IF same = "error" THEN RandomRaised
               ELSE IF same = "false" THEN RandomFailed
               ELSE ""

check_apply_bonus(impl) ==
  LET arr == hidden_input("apply_bonus", << >>)
      got == Invoke(impl, "apply_bonus", arr)
  IN  IF got.exc # "none" THEN RandomRaised
      ELSE LET close == allclose_rounded(got.val, expected_apply_bonus(arr))
           IN  IF close = "error" THEN RandomRaised
               ELSE IF close = "false" THEN RandomFailed
               ELSE ""

check_categorize_employees(impl) ==
  LET got == Invoke(impl, "categorize_employees",
                    hidden_input("categorize_employees", << >>))
      expected == StrArray(<< Excellent, Good, NeedsImprovement >>)
  IN  IF got.exc # "none" THEN RandomRaised
      ELSE IF ~array_equal(got.val, expected) THEN RandomFailed
      ELSE ""

check_format_scores_with_grades(impl) ==
  LET got == Invoke(impl, "format_scores_with_grades",
                    hidden_input("format_scores_with_grades", << >>))
      expected == StrArray(<< << "A" >>, << "B" >>, << "C" >>, << "D" >> >>)
  IN  IF got.exc # "none" THEN RandomRaised
      ELSE IF ~array_equal(got.val, expected) THEN RandomFailed
      ELSE ""

\* failures[func] = reason; an empty reason records nothing
Record(fs, func, reason) ==
  IF reason = "" THEN fs
  ELSE [f \in (DOMAIN fs) \cup { func } |-> IF f = func THEN reason ELSE fs[f]]

\* `except Exception` catches these; SystemExit derives from BaseException only
CaughtAsException(exc) ==
  exc \in { "ValueError", "TypeError", "AttributeError", "OSError", "RuntimeError" }

\* -------------------------------------------------------------- report lines
Header(ts) ==
  [kind |-> "header", ts |-> ts, mark |-> "", ordinal |-> 0, outcome |-> "",
   func |-> "", desc |-> "", label |-> "", reason |-> ""]

\* Every case line carries the time it was built at.
MessageStamped(mark, ordinal, outcome, func, desc, label, reason) ==
  [kind |-> "case", ts |-> clock, mark |-> mark, ordinal |-> ordinal, outcome |-> outcome,
   func |-> func, desc |-> desc, label |-> label, reason |-> reason]

Message(mark, ordinal, outcome, func, desc, label, reason) ==
  [kind |-> "case", ts |-> 0, mark |-> mark, ordinal |-> ordinal, outcome |-> outcome,
   func |-> func, desc |-> desc, label |-> label, reason |-> reason]

PassedMsg(n, case) == Message("ok", n, "Passed", case.func, case.desc, "", "")
FailedMsg(n, case, reason) ==
  Message("x", n, "Failed", case.func, case.desc, "Reason", reason)
CrashedMsg(n, case, text) ==
  Message("x", n, "Crashed", case.func, case.desc, "Error", text)

\* The comparison of lines 176-181 and the `if passed` of line 183:
\* "true", "false", or the exception it raises.
ComparePassed(result, expected) ==
  CASE expected.kind = "ndarray" ->
         IF array_equal(result, expected) THEN "true" ELSE "false"
    [] expected.kind = "tuple" ->
         IF ~(result.kind \in { "ndarray", "list", "tuple" }) THEN "TypeError"
         ELSE LET same == AllRoundedEqual(result.items, expected.items, 10, 1)
              IN  IF same = "error" THEN "TypeError" ELSE same
    [] OTHER ->
         \* result == expected against a bool: elementwise for an array
         IF result.kind = "bool" THEN (IF result.b = expected.b THEN "true" ELSE "false")
         ELSE IF result.kind = "ndarray" /\ Len(result.items) > 1 THEN "ValueError"
         ELSE IF result.kind = "ndarray" /\ Len(result.items) = 1
           THEN (IF ElemEq(result.items[1], BoolElem(expected.b)) THEN "true" ELSE "false")
         ELSE "false"

Continue(msg, invoked) == [raised |-> "none", msg |-> msg, invoked |-> invoked]
Propagate(exc, invoked) == [raised |-> exc, msg |-> Header(0), invoked |-> invoked]

\* What the except clause of line 188 does with an exception of the body
Handle(n, case, exc, text, invoked) ==
  IF CaughtAsException(exc)
    THEN Continue(CrashedMsg(n, case, text), invoked)
    ELSE Propagate(exc, invoked)

\* The two source scans of lines 166 and 168, for every case and every
\* implementation whose source text can be retrieved.
WithSource == { "ref", "hardcoded", "stub", "raises", "exits", "special" }

SourceScans ==
  { [n |-> n, variant |-> v,
     stub |-> IsStub(MethodSource(visible_tests[n].func, v)),
     hardcoded |-> detect_hardcoded(MethodSource(visible_tests[n].func, v),
                                    visible_tests[n].expected)] :
      << n, v >> \in { << m, w >> \in (1..NumCases) \X WithSource :
                         w \in DeviationsOf(visible_tests[m].func) \cup { "ref" } } }

Scan(n, variant) == CHOOSE r \in SourceScans : r.n = n /\ r.variant = variant

StubReason == "Function contains only 'pass'"
HardcodedReason == "Hardcoded return detected"

\* The chain without its last elif: the FailureSet is not consulted.
AntiCheatReasonWithoutFailureSet(n, variant, random_failed_funcs) ==
  IF Scan(n, variant).stub THEN StubReason
  ELSE IF Scan(n, variant).hardcoded THEN HardcodedReason
  ELSE ""

\* The if/elif chain of lines 166-171: the reason the case fails for
\* without running the method, "" when the else branch runs it.
AntiCheatReason(n, variant, random_failed_funcs) ==
  IF Scan(n, variant).stub THEN StubReason
  ELSE IF Scan(n, variant).hardcoded THEN HardcodedReason
  ELSE IF visible_tests[n].func \in DOMAIN random_failed_funcs
    THEN random_failed_funcs[visible_tests[n].func]
  ELSE ""

\* The body of the main loop for case n (lines 156-189): the message it
\* builds, or the exception that leaves the loop, and whether the method was
\* invoked on the visible input.
ProcessCase(s, n, random_failed_funcs) ==
  LET case == visible_tests[n]
      func == case.func
      variant == s.impl[func]
  IN  IF s.ctor = "raises_later"
        THEN Handle(n, case, "RuntimeError", "constructor failed", FALSE)
      ELSE IF variant = "missing"
        THEN Handle(n, case, "AttributeError", "object has no attribute", FALSE)
      ELSE IF variant = "nosource"
        THEN Handle(n, case, "OSError", "could not get source code", FALSE)
      ELSE IF AntiCheatReason(n, variant, random_failed_funcs) # ""
        THEN Continue(FailedMsg(n, case,
                                AntiCheatReason(n, variant, random_failed_funcs)), FALSE)
      ELSE LET got == Invoke(s.impl, func, case.input) IN
        IF got.exc # "none" THEN Handle(n, case, got.exc, got.msg, TRUE)
        ELSE LET passed == ComparePassed(got.val, case.expected) IN
          IF passed = "true" THEN Continue(PassedMsg(n, case), TRUE)
          ELSE IF passed = "false"
            THEN Continue(FailedMsg(n, case, "Incorrect output"), TRUE)
          ELSE Handle(n, case, passed, "comparison failed", TRUE)

\* The file opened with "w": the write replaces the content.
OverwriteFile(content, lines) == lines

\* open(report_path, "a") ... f.write(...)
AppendToFile(content, lines) == content \o lines

\* The loop stops one case early.
LoopDoneOneEarly(n) == n >= NumCases

\* the for loop has gone through all of visible_tests
LoopDone(n) == n > NumCases

\* ------------------------------------------------------------- transitions
NoFailures == [f \in { } |-> ""]

\* A line some earlier writer left in report.txt
PriorLine ==
  [kind |-> "prior", ts |-> 0, mark |-> "", ordinal |-> 0, outcome |-> "",
   func |-> "", desc |-> "", label |-> "", reason |-> ""]

Init ==
  /\ sub \in Submissions
  /\ sink \in { << >>, << PriorLine >> }
  /\ run = 1
  /\ clock = 0
  /\ pc = "start"
  /\ step = 0
  /\ rand = << >>
  /\ failures = NoFailures
  /\ report_lines = << >>
  /\ i = 1
  /\ console = << >>
  /\ uncaught = "none"
  /\ calls = { }
  /\ reported = << >>

LoadError(l) ==
  CASE l = "missing_file" -> "FileNotFoundError"
    [] l = "syntax_error" -> "SyntaxError"
    [] l = "missing_type" -> "AttributeError"
    [] l = "constructor_raises" -> "RuntimeError"

\* Lines 98-109 when the module loads and Analyzer() returns.
Load ==
  /\ pc = "start"
  /\ sub.load = "ok"
  /\ report_lines' = << Header(clock) >>
  /\ pc' = "random"
  /\ UNCHANGED << sub, sink, run, clock, step, rand, failures, i, console,
                  uncaught, calls, reported >>

\* Lines 102-107 raise: nothing in test_student_code or under __main__
\* catches, so the exception ends the process.
LoadFails ==
  /\ pc = "start"
  /\ sub.load # "ok"
  /\ uncaught' = LoadError(sub.load)
  /\ pc' = "crashed"
  /\ UNCHANGED << sub, sink, run, clock, step, rand, failures, report_lines, i,
                  console, calls, reported >>

Invoked(phase, func) ==
  IF sub.impl[func] = "missing" THEN calls ELSE calls \cup { << phase, func >> }

\* One try-block of run_randomized_checks: the reason is recorded and the
\* next block follows, whatever this one raised.
CheckStep(n, reason) ==
  /\ pc = "random"
  /\ step = n - 1
  /\ failures' = Record(failures, OpNames[n], reason)
  /\ calls' = Invoked("random", OpNames[n])
  /\ step' = n
  /\ UNCHANGED << sub, sink, run, clock, pc, report_lines, i, console, uncaught,
                  reported >>

CheckCreate ==
  \E r \in RandomInputs :
    /\ rand' = r
    /\ CheckStep(1, check_create_performance_array(sub.impl, r))

CheckValidate == CheckStep(2, check_validate_scores(sub.impl)) /\ UNCHANGED rand

CheckSummary ==
  CheckStep(3, check_compute_performance_summary(sub.impl)) /\ UNCHANGED rand

CheckBonus == CheckStep(4, check_apply_bonus(sub.impl)) /\ UNCHANGED rand

CheckCategorize == CheckStep(5, check_categorize_employees(sub.impl)) /\ UNCHANGED rand

CheckFormat == CheckStep(6, check_format_scores_with_grades(sub.impl)) /\ UNCHANGED rand

\* `return failures` and the assignment of line 152
ChecksReturn ==
  /\ pc = "random"
  /\ step = Len(OpNames)
  /\ pc' = "cases"
  /\ i' = 1
  /\ UNCHANGED << sub, sink, run, clock, step, rand, failures, report_lines,
                  console, uncaught, calls, reported >>

\* One iteration of the main loop, lines 155-192.
VisibleCase ==
  /\ pc = "cases"
  /\ ~LoopDone(i)
  /\ LET out == ProcessCase(sub, i, failures) IN
       /\ calls' = IF out.invoked
                     THEN calls \cup { << "visible", visible_tests[i].func >> }
                     ELSE calls
       /\ IF out.raised = "none"
            THEN /\ console' = Append(console, out.msg)
                 /\ report_lines' = Append(report_lines, out.msg)
                 /\ i' = i + 1
                 /\ UNCHANGED << pc, uncaught >>
            ELSE /\ uncaught' = out.raised
                 /\ pc' = "crashed"
                 /\ UNCHANGED << console, report_lines, i >>
  /\ UNCHANGED << sub, sink, run, clock, step, rand, failures, reported >>

\* The loop is over: lines 195-196.
Report ==
  /\ pc = "cases"
  /\ LoopDone(i)
  /\ sink' = AppendToFile(sink, report_lines)
  /\ reported' = Append(reported, rand)
  /\ pc' = "done"
  /\ UNCHANGED << sub, run, clock, step, rand, failures, report_lines, i, console,
                  uncaught, calls >>

\* The harness is started again, later, on the same submission and
\* report.txt.
NextRun ==
  /\ pc \in { "done", "crashed" }
  /\ run < MaxRuns
  /\ run' = run + 1
  /\ clock' = clock + 1
  /\ pc' = "start"
  /\ step' = 0
  /\ rand' = << >>
  /\ failures' = NoFailures
  /\ report_lines' = << >>
  /\ i' = 1
  /\ console' = << >>
  /\ uncaught' = "none"
  /\ calls' = { }
  /\ UNCHANGED << sub, sink, reported >>

Next ==
  \/ Load
  \/ LoadFails
  \/ CheckCreate
  \/ CheckValidate
  \/ CheckSummary
  \/ CheckBonus
  \/ CheckCategorize
  \/ CheckFormat
  \/ ChecksReturn
  \/ VisibleCase
  \/ Report
  \/ NextRun

Spec == Init /\ [][Next]_vars

\* ------------------------------------------------------------------ claims
\* The entry of case n has been built in this run.
Processed(n) == Len(report_lines) > n

EntryOf(n) == report_lines[n + 1]

FuncOf(n) == visible_tests[n].func

VisibleCalls == { c \in calls : c[1] = "visible" }

\* Line 161 to line 163 went through for case n: the instance, the bound
\* method and the source text are there.
SourceRetrieved(n) == sub.ctor = "ok" /\ sub.impl[FuncOf(n)] \in WithSource

StubFires(n) == SourceRetrieved(n) /\ Scan(n, sub.impl[FuncOf(n)]).stub

HardcodedFires(n) == SourceRetrieved(n) /\ Scan(n, sub.impl[FuncOf(n)]).hardcoded

InFailureSet(n) == FuncOf(n) \in DOMAIN failures

Flagged(n) == StubFires(n) \/ HardcodedFires(n) \/ InFailureSet(n)

FlagReasons(n) ==
  (IF StubFires(n) THEN { StubReason } ELSE { })
  \cup (IF HardcodedFires(n) THEN { HardcodedReason } ELSE { })
  \cup (IF InFailureSet(n) THEN { failures[FuncOf(n)] } ELSE { })

\* C1 as stated: a visible case that the stub check, detect_hardcoded or
\* the FailureSet flags is recorded Failed with the reason of a flag that
\* fired, and its operation is not invoked on the visible input.
C1_FlaggedCaseIsFailed ==
  \A n \in 1..NumCases :
    (Processed(n) /\ Flagged(n)) =>
      /\ EntryOf(n).outcome = "Failed"
      /\ EntryOf(n).reason \in FlagReasons(n)
      /\ << "visible", FuncOf(n) >> \notin calls

\* C1 amended: a flagged visible case never has its operation invoked on
\* the visible input; when the instance, the method and its source text were
\* obtained it is recorded Failed with the reason of the first flag in the
\* order stub, hardcoded, FailureSet, and otherwise it is recorded Crashed.
C1_FlaggedCaseIsFailedWhenSourceRetrieved ==
  \A n \in 1..NumCases :
    (Processed(n) /\ Flagged(n)) =>
      /\ << "visible", FuncOf(n) >> \notin calls
      /\ SourceRetrieved(n) =>
           /\ EntryOf(n).outcome = "Failed"
           /\ EntryOf(n).reason =
                IF StubFires(n) THEN StubReason
                ELSE IF HardcodedFires(n) THEN HardcodedReason
                ELSE failures[FuncOf(n)]
      /\ ~SourceRetrieved(n) => EntryOf(n).outcome = "Crashed"

\* A case flagged by the FailureSet alone has been recorded Failed with the
\* FailureSet's reason.
C1_Witness ==
  \E n \in 1..NumCases :
    /\ Processed(n)
    /\ InFailureSet(n) /\ ~StubFires(n) /\ ~HardcodedFires(n)
    /\ EntryOf(n).outcome = "Failed"
    /\ EntryOf(n).reason = failures[FuncOf(n)]

ReferenceSubmission == [load |-> "ok", ctor |-> "ok", impl |-> ReferenceImpl]

\* C2: the reference submission ends its run with an empty FailureSet and
\* six Passed entries.
C2_ReferencePassesAllSix ==
  (pc = "done" /\ sub = ReferenceSubmission) =>
    /\ failures = NoFailures
    /\ \A n \in 1..NumCases : EntryOf(n).outcome = "Passed"

\* The method of case n returns, on the visible input, a container whose
\* number of elements is not that of the expected value.
WrongArity(n) ==
  LET got == Invoke(sub.impl, FuncOf(n), visible_tests[n].input) IN
    /\ got.exc = "none"
    /\ IsSized(got.val) /\ IsSized(visible_tests[n].expected)
    /\ Len(got.val.items) # Len(visible_tests[n].expected.items)

\* C3: a case whose operation is missing, or returns a value of the wrong
\* arity, is recorded Crashed.
C3_MissingOrWrongArityIsCrashed ==
  \A n \in 1..NumCases :
    (Processed(n) /\ sub.ctor = "ok"
       /\ (sub.impl[FuncOf(n)] = "missing" \/ WrongArity(n))) =>
      EntryOf(n).outcome = "Crashed"

\* C4: after a successful load no exception of the submission ends the
\* process.
C4_NothingPropagatesAfterLoad == sub.load = "ok" => uncaught = "none"

\* C5: a failed load is caught and reported as one fatal entry.
C5_LoadFailureReportedInBand ==
  (sub.load # "ok" /\ pc # "start") =>
    /\ uncaught = "none"
    /\ Cardinality({ j \in 1..Len(console) : console[j].kind = "fatal" }) = 1

Outcomes == { "Passed", "Failed", "Crashed" }

\* C6: within a run the steps are load, the six checks, the six cases in
\* battery order, the report.  A check runs only before any case and right
\* after the load; a method is invoked on a visible input only when all six
\* checks are done; the FailureSet does not change once the checks have
\* returned; the entries are appended in ordinal order; the file is written
\* only when all six cases have an outcome.
C6_StrictOrder ==
  [][ /\ (VisibleCalls' # { }) => (step' = Len(OpNames) /\ pc' # "random")
      /\ (step' # step /\ pc' # "start") =>
           /\ pc = "random" /\ step' = step + 1
           /\ report_lines = << Header(clock) >>
           /\ VisibleCalls = { }
      /\ (pc \in { "cases", "done", "crashed" } /\ pc' # "start") => failures' = failures
      /\ (Len(report_lines') > Len(report_lines) /\ pc = "cases") =>
           /\ step = Len(OpNames)
           /\ report_lines' = Append(report_lines, report_lines'[Len(report_lines')])
           /\ report_lines'[Len(report_lines')].ordinal = Len(report_lines)
           /\ report_lines'[Len(report_lines')].func = OpNames[Len(report_lines)]
      /\ sink' # sink =>
           /\ pc = "cases"
           /\ Len(report_lines) = NumCases + 1
           /\ \A n \in 1..NumCases :
                EntryOf(n).ordinal = n /\ EntryOf(n).outcome \in Outcomes
    ]_vars

\* A run is over in which a check recorded a failure and a method was
\* invoked on a visible input.
C6_Witness == pc = "done" /\ VisibleCalls # { } /\ DOMAIN failures # { }

IsReportBlock(b) ==
  /\ Len(b) = NumCases + 1
  /\ b[1].kind = "header"
  /\ \A n \in 1..NumCases :
       b[n + 1].kind = "case" /\ b[n + 1].ordinal = n /\ b[n + 1].outcome \in Outcomes

\* C7: every write to report.txt leaves the old content in place and puts
\* after it one header and the six entries 1..6; a run that reaches the
\* report step does write.
C7_AppendOnly ==
  [][ /\ sink' # sink =>
           /\ Len(sink') = Len(sink) + NumCases + 1
           /\ SubSeq(sink', 1, Len(sink)) = sink
           /\ IsReportBlock(SubSeq(sink', Len(sink) + 1, Len(sink')))
      /\ (pc = "cases" /\ pc' = "done") => sink' # sink
    ]_vars

\* Two runs have reported after a line that was in the file before.
C7_Witness ==
  /\ pc = "done"
  /\ Len(reported) = 2
  /\ Len(sink) = 2 * (NumCases + 1) + 1
  /\ sink[1] = PriorLine

\* The k-th report block written since the start.
Block(k) ==
  LET base == Len(sink) - (NumCases + 1) * Len(reported)
  IN  SubSeq(sink, base + (NumCases + 1) * (k - 1) + 1, base + (NumCases + 1) * k)

SameHeader(a, b) == [a EXCEPT !.ts = 0] = [b EXCEPT !.ts = 0]

\* C8 as stated: any two report blocks of the same submission are the same
\* but for the timestamp of the header.
C8_RunsReportTheSame ==
  \A a, b \in 1..Len(reported) :
    /\ SameHeader(Block(a)[1], Block(b)[1])
    /\ \A n \in 1..NumCases : Block(a)[n + 1] = Block(b)[n + 1]

\* C8 amended: any two report blocks of the same submission have the same
\* entries for cases 2..6, and the same entry for case 1 when the two runs
\* drew the same random vector.
C8_RunsReportTheSameForEqualDraws ==
  \A a, b \in 1..Len(reported) :
    /\ SameHeader(Block(a)[1], Block(b)[1])
    /\ \A n \in 2..NumCases : Block(a)[n + 1] = Block(b)[n + 1]
    /\ reported[a] = reported[b] => Block(a)[2] = Block(b)[2]

\* Two runs drew the same vector for a create_performance_array whose
\* check depends on the vector, and the check failed in the first.
C8_Witness ==
  /\ Len(reported) >= 2
  /\ reported[1] = reported[2]
  /\ sub.impl["create_performance_array"] = "special"
  /\ Block(1)[2].outcome = "Failed"
  /\ Block(2)[2].outcome = "Failed"

\* The output matches the reference output: the same type and shape, and
\* equal elements (numbers to one decimal).
MatchesReference(val, ref) ==
  IF ref.kind = "bool" THEN val.kind = "bool" /\ val.b = ref.b
  ELSE /\ val.kind = ref.kind
       /\ Len(val.items) = Len(ref.items)
       /\ \A j \in 1..Len(ref.items) :
            IF IsNumeric(ref.items[j])
              THEN /\ IsNumeric(val.items[j])
                   /\ RoundTo(val.items[j].n, 100) = RoundTo(ref.items[j].n, 100)
              ELSE ElemEq(val.items[j], ref.items[j])

\* C9: when the six checks are done, the FailureSet holds exactly the
\* operations whose invocation on the hidden input raises or whose output
\* does not match the reference output: "Exception occurred" for an
\* invocation that raises, one of the two reasons for a mismatch (the
\* comparison of a mismatching value may itself raise), nothing for a match.
C9_FailureSetIsExactlyTheMismatches ==
  step = Len(OpNames) =>
    \A f \in Ops :
      LET x == hidden_input(f, rand)
          got == Invoke(sub.impl, f, x)
      IN  IF got.exc # "none"
            THEN f \in DOMAIN failures /\ failures[f] = RandomRaised
          ELSE IF ~MatchesReference(got.val, Reference(f, x))
            THEN f \in DOMAIN failures /\ failures[f] \in { RandomFailed, RandomRaised }
          ELSE f \notin DOMAIN failures

\* C10: a case whose method returns the visible expected value as a literal
\* is recorded Failed with "Hardcoded return detected".
C10_PastedLiteralIsFlagged ==
  \A n \in 1..NumCases :
    (Processed(n) /\ sub.ctor = "ok" /\ sub.impl[FuncOf(n)] = "hardcoded") =>
      /\ EntryOf(n).outcome = "Failed"
      /\ EntryOf(n).reason = HardcodedReason

====
